---------------------------- MODULE Spec2Model ----------------------------
(***************************************************************************)
(* A model of kotal's defaulting / validation pipeline and of its          *)
(* reconcilers (NodeReconciler for polkadot nodes, NetworkReconciler for   *)
(* ethereum networks).                                                     *)
(*                                                                         *)
(* Several specifications share the module.  Each one drives one group of  *)
(* variables and leaves the other groups parked at their initial values:   *)
(*   SpecDefault  Node.Default applied repeatedly to an arbitrary spec     *)
(*   SpecAdm      the admission pipeline (Default, then validation, then   *)
(*                persist or reject) over one stored Node                  *)
(*   SpecNode     NodeReconciler over one Node, its claim and statefulset  *)
(*   SpecNet      NetworkReconciler over networks and their deployments    *)
(*   SpecRec      the behaviours of SpecNode and those of SpecNet          *)
(*   SpecClaim    SpecNode over Nodes that differ in storage and labels    *)
(*   SpecLive     SpecNode under the controller runtime's scheduling: a    *)
(*                reconcile that would change the store is eventually run  *)
(*   SpecRace     the reconcile of one child, step by step, among the      *)
(*                store's other clients                                    *)
(*   SpecNear     NearClient.Args called on an arbitrary NEAR node spec    *)
(*   SpecLabels   updateLabels called repeatedly on an arbitrary Node      *)
(***************************************************************************)
EXTENDS Integers, Sequences, FiniteSets, TLC

(***************************************************************************)
(* Bounds of the model.                                                    *)
(***************************************************************************)
\* cpu quantities "1" .. "MaxCPU" may be requested (besides "" and "1000m")
MaxCPU == 2
\* memory quantities "1Gi" .. "MaxMemGi" (besides "" and "1024Mi")
MaxMemGi == 2
\* storage quantities "1Gi" .. "MaxStorageGi" (besides "")
MaxStorageGi == 1
\* how many times SpecDefault applies Default to its input
MaxDefaults == 2
\* how many Nodes of the same name the store creates one after the other
MaxUID == 2
\* how many nodes the Network net-a may declare
MaxNodes == 2
\* how many resource versions the store of SpecRace gives out
MaxVersion == 3

(***************************************************************************)
(* Resource quantities.  A quantity is the string the user wrote; the      *)
(* code compares parsed values (resource.MustParse, Quantity.Cmp) and      *)
(* prints the string.  The grammars list <<string, value>>: cpu in         *)
(* millicores ("2" = 2000, "1000m" = 1000), memory and storage in Mi       *)
(* ("1Gi" = 1024, "1024Mi" = 1024).                                        *)
(***************************************************************************)
CPUGrammar ==
    {<<ToString(n), 1000 * n>> : n \in 1..8} \cup {<<"1000m", 1000>>}

MemoryGrammar ==
    {<<ToString(n) \o "Gi", 1024 * n>> : n \in 1..32} \cup {<<"1024Mi", 1024>>}

\* resource.MustParse(s) for a cpu quantity, as a number of millicores
ParseCPU(s) == (CHOOSE p \in CPUGrammar : p[1] = s)[2]

\* resource.MustParse(s) for a memory or storage quantity, as a number of Mi
ParseMemory(s) == (CHOOSE p \in MemoryGrammar : p[1] = s)[2]

(***************************************************************************)
(* Defaults (defaults.go).                                                 *)
(***************************************************************************)
DefaultNodeCPURequest == "2"
DefaultNodeCPULimit == "4"
DefaultNodeMemoryRequest == "2Gi"
DefaultNodeMemoryLimit == "4Gi"
DefaultNodeStorageRequest == "20Gi"
\* polkadot's family-specific defaults
DefaultSyncMode == "full"
DefaultLoggingVerbosity == "info"
DefaultRPCPort == 9933

(***************************************************************************)
(* Inputs: what a user may write in each field of a Node spec.             *)
(***************************************************************************)
CPUInputs == {""} \cup {ToString(n) : n \in 1..MaxCPU} \cup {"1000m"}
MemoryInputs == {""} \cup {ToString(n) \o "Gi" : n \in 1..MaxMemGi} \cup {"1024Mi"}
StorageInputs == {""} \cup {ToString(n) \o "Gi" : n \in 1..MaxStorageGi}
StorageClassInputs == {"", "fast"}
SyncModeInputs == {"", "fast"}
LoggingInputs == {"", "debug"}
RPCPortInputs == {0, 8080}

\* Every Node spec a user may submit, field by field
AllSpecs ==
    [cpu : CPUInputs, cpuLimit : CPUInputs,
     memory : MemoryInputs, memoryLimit : MemoryInputs,
     storage : StorageInputs, storageClass : StorageClassInputs,
     syncMode : SyncModeInputs, logging : LoggingInputs,
     rpc : BOOLEAN, rpcPort : RPCPortInputs]

(***************************************************************************)
(* Node.DefaultNodeResources and Node.Default.                             *)
(***************************************************************************)
\* DefaultNodeResources with the emptiness test on cpu lost
DefaultNodeResourcesOverwriteCPU(s) ==
    [s EXCEPT
       !.cpu = DefaultNodeCPURequest,
       !.cpuLimit = IF s.cpuLimit = "" THEN DefaultNodeCPULimit ELSE s.cpuLimit,
       !.memory = IF s.memory = "" THEN DefaultNodeMemoryRequest ELSE s.memory,
       !.memoryLimit = IF s.memoryLimit = "" THEN DefaultNodeMemoryLimit
                       ELSE s.memoryLimit,
       !.storage = IF s.storage = "" THEN DefaultNodeStorageRequest ELSE s.storage]

DefaultNodeResources(s) ==
    [s EXCEPT
       !.cpu = IF s.cpu = "" THEN DefaultNodeCPURequest ELSE s.cpu,
       !.cpuLimit = IF s.cpuLimit = "" THEN DefaultNodeCPULimit ELSE s.cpuLimit,
       !.memory = IF s.memory = "" THEN DefaultNodeMemoryRequest ELSE s.memory,
       !.memoryLimit = IF s.memoryLimit = "" THEN DefaultNodeMemoryLimit
                       ELSE s.memoryLimit,
       !.storage = IF s.storage = "" THEN DefaultNodeStorageRequest ELSE s.storage]

\* Default with the sync mode filled from the (not yet defaulted) logging
\* field instead of from DefaultSyncMode
DefaultSyncModeFromLogging(s) ==
    LET r == DefaultNodeResources(s) IN
    [r EXCEPT
       !.syncMode = IF r.syncMode = "" THEN r.logging ELSE r.syncMode,
       !.logging = IF r.logging = "" THEN DefaultLoggingVerbosity ELSE r.logging,
       !.rpcPort = IF r.rpc /\ r.rpcPort = 0 THEN DefaultRPCPort ELSE r.rpcPort]

\* Default with the test on Spec.RPC lost: the port is filled whenever it is 0
DefaultPortAlways(s) ==
    LET r == DefaultNodeResources(s) IN
    [r EXCEPT
       !.syncMode = IF r.syncMode = "" THEN DefaultSyncMode ELSE r.syncMode,
       !.logging = IF r.logging = "" THEN DefaultLoggingVerbosity ELSE r.logging,
       !.rpcPort = IF r.rpcPort = 0 THEN DefaultRPCPort ELSE r.rpcPort]

Default(s) ==
    LET r == DefaultNodeResources(s) IN
    [r EXCEPT
       !.syncMode = IF r.syncMode = "" THEN DefaultSyncMode ELSE r.syncMode,
       !.logging = IF r.logging = "" THEN DefaultLoggingVerbosity ELSE r.logging,
       !.rpcPort = IF r.rpc /\ r.rpcPort = 0 THEN DefaultRPCPort ELSE r.rpcPort]

VARIABLES
    dIn,      \* SpecDefault: the spec as submitted
    dOut,     \* SpecDefault: the spec after dCount applications of Default
    dCount,   \* SpecDefault: how many times Default has been applied
    stored,   \* the Node object the store holds, or NoNode
    adm,      \* the admission review in progress, or NoReview
    webhooks, \* whether the admission webhooks are enabled
    lastUID,  \* the uid of the last Node the store created
    pvc,      \* the persistent volume claim named after the Node, or NoChild
    sts,      \* the statefulset named after the Node, or NoChild
    lastRec,  \* what the last NodeReconciler.Reconcile did
    networks, \* the Network spec the store holds under each name, or NoNetwork
    deps,     \* the deployment the store holds under each key, or NoChild
    lastNet,  \* what the step just taken did, if a NetworkReconciler.Reconcile
    rObj,     \* SpecRace: the child object in the store, or NoChild
    rVersion, \* SpecRace: the last resource version the store gave out
    rRun,     \* SpecRace: the reconcile of that child in progress
    nSpec,    \* SpecNear: the NEAR node spec the client is built for
    nArgs,    \* SpecNear: the arguments NearClient.Args returned, or <<>>
    lIn,      \* SpecLabels: the Node as fetched, before updateLabels
    lOut,     \* SpecLabels: the Node after lCount calls of updateLabels
    lCount    \* SpecLabels: how many times updateLabels has been called

defaultVars == <<dIn, dOut, dCount>>
admVars == <<stored, adm, webhooks, lastUID>>
childVars == <<pvc, sts, lastRec>>
netVars == <<networks, deps, lastNet>>

raceVars == <<rObj, rVersion, rRun>>
nearVars == <<nSpec, nArgs>>
labelVars == <<lIn, lOut, lCount>>

vars == <<dIn, dOut, dCount, stored, adm, webhooks, lastUID, pvc, sts, lastRec,
          networks, deps, lastNet, rObj, rVersion, rRun, nSpec, nArgs,
          lIn, lOut, lCount>>

otherThanAdm == <<defaultVars, childVars, netVars, raceVars, nearVars, labelVars>>
otherThanDefault == <<admVars, childVars, netVars, raceVars, nearVars, labelVars>>
otherThanNode == <<defaultVars, netVars, raceVars, nearVars, labelVars>>
otherThanNet == <<defaultVars, admVars, childVars, raceVars, nearVars, labelVars>>
otherThanRace == <<defaultVars, admVars, childVars, netVars, nearVars, labelVars>>
otherThanNear == <<defaultVars, admVars, childVars, netVars, raceVars, labelVars>>
otherThanLabels == <<defaultVars, admVars, childVars, netVars, raceVars, nearVars>>

\* a spec with every field unset
EmptySpec ==
    [cpu |-> "", cpuLimit |-> "", memory |-> "", memoryLimit |-> "",
     storage |-> "", storageClass |-> "", syncMode |-> "", logging |-> "",
     rpc |-> FALSE, rpcPort |-> 0]

DefaultParked == dIn = EmptySpec /\ dOut = EmptySpec /\ dCount = 0

NoNode == [absent |-> TRUE]
NoReview == [phase |-> "none"]

\* no admission review is in progress
Idle == adm.phase \in {"none", "answered"}

AdmParked == stored = NoNode /\ adm = NoReview /\ webhooks = TRUE /\ lastUID = 0

NoChild == [absent |-> TRUE]
NoRun == [result |-> "none", pvcOp |-> "none", stsOp |-> "none"]

ChildParked == pvc = NoChild /\ sts = NoChild /\ lastRec = NoRun

NoNetwork == [absent |-> TRUE]
NoNetRun ==
    [result |-> "none", net |-> "", deleted |-> {}, created |-> {}, updated |-> {}]

\* the networks of the model and the namespace of each
NetworkNames == {"net-a", "net-b"}
Namespace(net) == IF net = "net-a" THEN "ns1" ELSE "ns2"

\* the node names net-a may declare: n1 .. nMaxNodes; net-b declares b1
NodeNames == {"n" \o ToString(i) : i \in 1..MaxNodes}

\* the keys <<namespace, name>> under which the store may hold a deployment:
\* those of the networks' nodes and one of a user's own deployment
DepKeys ==
    ({"ns1"} \X NodeNames) \cup {<<"ns2", "b1">>, <<"ns2", "web">>}

NetParked ==
    /\ networks = [n \in NetworkNames |-> NoNetwork]
    /\ deps = [k \in DepKeys |-> NoChild]
    /\ lastNet = NoNetRun

\* no reconcile of the child is in progress
NoRace ==
    [kind |-> "none", pc |-> "idle", desired |-> "", seen |-> NoChild,
     result |-> "none", err |-> "", stale |-> FALSE, missed |-> FALSE,
     overwrote |-> FALSE]

RaceParked == rObj = NoChild /\ rVersion = 0 /\ rRun = NoRace

NoNearSpec == [absent |-> TRUE]

NearParked == nSpec = NoNearSpec /\ nArgs = <<>>

LabelsParked == lIn = NoNode /\ lOut = NoNode /\ lCount = 0

(***************************************************************************)
(* SpecDefault: the mutating webhook applied to an arbitrary spec, again   *)
(* and again (the platform calls it on create and on every update).        *)
(***************************************************************************)
DefaultInit ==
    /\ dIn \in AllSpecs
    /\ dOut = dIn
    /\ dCount = 0
    /\ AdmParked
    /\ ChildParked
    /\ NetParked
    /\ RaceParked
    /\ NearParked
    /\ LabelsParked

ApplyDefault ==
    /\ dCount < MaxDefaults
    /\ dOut' = Default(dOut)
    /\ dCount' = dCount + 1
    /\ UNCHANGED dIn
    /\ UNCHANGED otherThanDefault

DefaultNext == ApplyDefault

SpecDefault == DefaultInit /\ [][DefaultNext]_vars

(***************************************************************************)
(* The Resource Invariant Checker and the Validation Stage.                *)
(***************************************************************************)
Invalid(path, value, detail) ==
    [type |-> "FieldValueInvalid", field |-> path, badValue |-> value,
     detail |-> detail]

\* the cpu rule with the strict relation of the memory rule
ValidateCPUStrict(s) ==
    IF s.cpu # "" /\ s.cpuLimit # "" /\ ParseCPU(s.cpuLimit) <= ParseCPU(s.cpu)
    THEN <<Invalid("spec.resources.cpuLimit", s.cpuLimit,
                   "must be greater than or equal to cpu " \o s.cpu)>>
    ELSE <<>>

\* cpu limit can't be less than cpu request (equality permitted)
ValidateCPU(s) ==
    IF s.cpu # "" /\ s.cpuLimit # "" /\ ParseCPU(s.cpuLimit) < ParseCPU(s.cpu)
    THEN <<Invalid("spec.resources.cpuLimit", s.cpuLimit,
                   "must be greater than or equal to cpu " \o s.cpu)>>
    ELSE <<>>

\* the memory rule with the relation of the cpu rule (equality accepted)
ValidateMemoryLax(s) ==
    IF s.memory # "" /\ s.memoryLimit # ""
       /\ ParseMemory(s.memoryLimit) < ParseMemory(s.memory)
    THEN <<Invalid("spec.resources.memoryLimit", s.memoryLimit,
                   "must be greater than memory " \o s.memory)>>
    ELSE <<>>

\* memory limit must be greater than memory request (strict)
ValidateMemory(s) ==
    IF s.memory # "" /\ s.memoryLimit # ""
       /\ ParseMemory(s.memoryLimit) <= ParseMemory(s.memory)
    THEN <<Invalid("spec.resources.memoryLimit", s.memoryLimit,
                   "must be greater than memory " \o s.memory)>>
    ELSE <<>>

\* the checker stopping at the first violation
ValidateResourcesFirstOnly(s) ==
    IF ValidateCPU(s) # <<>> THEN ValidateCPU(s) ELSE ValidateMemory(s)

\* the checker applied to cpu, then to memory; errors accumulate
ValidateResources(s) == ValidateCPU(s) \o ValidateMemory(s)

\* fields that may not change after creation
ValidateImmutable(old, new) ==
    IF new.storageClass # old.storageClass
    THEN <<Invalid("spec.resources.storageClass", new.storageClass,
                   "field is immutable")>>
    ELSE <<>>

ValidateCreate(new) == ValidateResources(new)

\* validateUpdate checking only what an update adds
ValidateUpdateImmutableOnly(old, new) == ValidateImmutable(old, new)

ValidateUpdate(old, new) ==
    ValidateResources(new) \o ValidateImmutable(old, new)

(***************************************************************************)
(* The admission pipeline of the platform over one Node.  A request is     *)
(* defaulted by the mutating webhook (Node.Default), validated by the      *)
(* validating webhook, and persisted only if validation reported no error. *)
(* When the webhooks are disabled (shared.IsWebhookEnabled) the request is *)
(* persisted as submitted.                                                 *)
(***************************************************************************)
Review(phase, op, old, obj, errs) ==
    [phase |-> phase, op |-> op, old |-> old, obj |-> obj, errs |-> errs]

NodeObject(spec, uid, labels) == [spec |-> spec, uid |-> uid, labels |-> labels]

\* the uid the store gives the next Node created
NextUID == IF lastUID < MaxUID THEN lastUID + 1 ELSE lastUID

\* a store that persists the object whatever validation said
PersistAlways(old, obj, errs) == obj

\* what the store holds after a review: the object if allowed, else what it held
Persist(old, obj, errs) == IF errs = <<>> THEN obj ELSE old

\* The platform receives a create (no Node stored) or an update (a Node
\* stored).  With the webhooks enabled it calls the mutating webhook, which
\* defaults the object; with the webhooks disabled nothing stands between
\* the request and the store.
Submit(requests, labelSets) ==
    /\ Idle
    /\ stored = NoNode => lastUID < MaxUID
    /\ \E raw \in requests, lbl \in labelSets :
       adm' = Review(IF webhooks THEN "defaulted" ELSE "validated",
                     IF stored = NoNode THEN "create" ELSE "update",
                     stored,
                     NodeObject(IF webhooks THEN Default(raw) ELSE raw,
                                IF stored = NoNode THEN NextUID ELSE stored.uid,
                                lbl),
                     <<>>)
    /\ UNCHANGED <<stored, webhooks, lastUID>>
    /\ UNCHANGED otherThanAdm

\* the validating webhook
Validate ==
    /\ adm.phase = "defaulted"
    /\ adm' = [adm EXCEPT !.phase = "validated",
                          !.errs = IF adm.op = "create"
                                   THEN ValidateCreate(adm.obj.spec)
                                   ELSE ValidateUpdate(adm.old.spec, adm.obj.spec)]
    /\ UNCHANGED <<stored, webhooks, lastUID>>
    /\ UNCHANGED otherThanAdm

\* the store persists an allowed object and rejects the others
Respond ==
    /\ adm.phase = "validated"
    /\ stored' = Persist(stored, adm.obj, adm.errs)
    /\ lastUID' = IF stored' = NoNode THEN lastUID ELSE stored'.uid
    /\ adm' = [phase |-> "answered", op |-> adm.op, allowed |-> adm.errs = <<>>]
    /\ UNCHANGED webhooks
    /\ UNCHANGED otherThanAdm

\* the user deletes the Node
DeleteNode ==
    /\ Idle
    /\ stored # NoNode
    /\ stored' = NoNode
    /\ UNCHANGED <<adm, webhooks, lastUID>>
    /\ UNCHANGED otherThanAdm

(***************************************************************************)
(* SpecAdm: the pipeline with the webhooks enabled, over every resource    *)
(* block a user may submit.  The store may hold, from the start, a Node    *)
(* persisted before the validating webhook was there: defaulted, never     *)
(* validated.                                                              *)
(***************************************************************************)
\* requests of this specification set the resource block only
AdmRequests ==
    [cpu : CPUInputs, cpuLimit : CPUInputs,
     memory : MemoryInputs, memoryLimit : MemoryInputs,
     storage : {""}, storageClass : StorageClassInputs,
     syncMode : {""}, logging : {""}, rpc : {FALSE}, rpcPort : {0}]

NoLabels == <<>>

AdmInit ==
    /\ stored \in {NoNode} \cup {NodeObject(Default(s), 1, NoLabels) : s \in AdmRequests}
    /\ lastUID = IF stored = NoNode THEN 0 ELSE 1
    /\ adm = NoReview
    /\ webhooks = TRUE
    /\ DefaultParked
    /\ ChildParked
    /\ NetParked
    /\ RaceParked
    /\ NearParked
    /\ LabelsParked

AdmSubmit == Submit(AdmRequests, {NoLabels})

AdmNext ==
    \/ AdmSubmit
    \/ Validate
    \/ Respond
    \/ DeleteNode

SpecAdm == AdmInit /\ [][AdmNext]_vars

(***************************************************************************)
(* NodeReconciler (polkadot).                                              *)
(***************************************************************************)
NodeName == "node-1"

\* clients/polkadot: the image (POLKADOT_IMAGE unset), the args, the home dir
DefaultPolkadotImage == "parity/polkadot:v0.9.9-1"
PolkadotHomeDir == "/polkadot"
PolkadotArgs == <<>>

\* shared.PathData: the data directory under a client's home directory
PathData(homeDir) == homeDir \o "/kotal-data"

FixedLabelKeys ==
    {"app.kubernetes.io/name", "app.kubernetes.io/instance",
     "app.kubernetes.io/component", "app.kubernetes.io/managed-by",
     "app.kubernetes.io/created-by"}

FixedLabel(k) ==
    CASE k = "app.kubernetes.io/name" -> "polkadot"
      [] k = "app.kubernetes.io/instance" -> NodeName
      [] k = "app.kubernetes.io/component" -> "polkadot-node"
      [] k = "app.kubernetes.io/managed-by" -> "kotal"
      [] k = "app.kubernetes.io/created-by" -> "polkadot-node-controller"

\* an updateLabels that sets an identifying label only where the Node has none
updateLabelsMissing(node) ==
    [node EXCEPT !.labels =
        [k \in FixedLabelKeys \cup DOMAIN node.labels |->
            IF k \in DOMAIN node.labels THEN node.labels[k] ELSE FixedLabel(k)]]

\* updateLabels: the five identifying labels written over the Node's labels
updateLabels(node) ==
    [node EXCEPT !.labels =
        [k \in FixedLabelKeys \cup DOMAIN node.labels |->
            IF k \in FixedLabelKeys THEN FixedLabel(k) ELSE node.labels[k]]]

NoOwner == [none |-> TRUE]

\* a SetControllerReference that leaves the object without a reference
SetNoReference(node, obj) == obj

\* ctrl.SetControllerReference(node, obj): the controller reference of obj
\* becomes the Node (same kind and name: an existing reference is replaced)
SetControllerReference(node, obj) ==
    [obj EXCEPT !.owner = [kind |-> "Node", name |-> NodeName, uid |-> node.uid]]

\* the object CreateOrUpdate starts from when Get finds none
BlankPVC ==
    [created |-> FALSE, labels |-> NoLabels, owner |-> NoOwner,
     accessModes |-> <<>>, requests |-> 0, storageClass |-> ""]

BlankStatefulSet ==
    [created |-> FALSE, labels |-> NoLabels, owner |-> NoOwner,
     selector |-> NoLabels, serviceName |-> "", templateLabels |-> NoLabels,
     image |-> "", args |-> <<>>, mountPath |-> "",
     requests |-> [cpu |-> 0, memory |-> 0],
     limits |-> [cpu |-> 0, memory |-> 0], claimName |-> ""]

\* a specPVC without the test on the creation timestamp: it writes the whole
\* spec and the labels whether the claim exists or not
specPVCWhole(node, claim) ==
    [claim EXCEPT !.labels = node.labels,
                  !.accessModes = <<"ReadWriteOnce">>,
                  !.requests = ParseMemory(node.spec.storage),
                  !.storageClass = node.spec.storageClass]

\* specPVC: of a claim that exists only the storage request is set
specPVC(node, claim) ==
    LET request == ParseMemory(node.spec.storage) IN
    IF claim.created
    THEN [claim EXCEPT !.requests = request]
    ELSE [claim EXCEPT !.labels = node.labels,
                       !.accessModes = <<"ReadWriteOnce">>,
                       !.requests = request,
                       !.storageClass = node.spec.storageClass]

specStatefulSet(node, set, image, homeDir, args) ==
    [set EXCEPT !.labels = node.labels,
                !.selector = node.labels,
                !.serviceName = NodeName,
                !.templateLabels = node.labels,
                !.image = image,
                !.args = args,
                !.mountPath = PathData(homeDir),
                !.requests = [cpu |-> ParseCPU(node.spec.cpu),
                              memory |-> ParseMemory(node.spec.memory)],
                !.limits = [cpu |-> ParseCPU(node.spec.cpuLimit),
                            memory |-> ParseMemory(node.spec.memoryLimit)],
                !.claimName = NodeName]

\* a CreateOrUpdate that creates the object and never updates it
CreateOnly(existing, mutated) ==
    IF existing = NoChild
    THEN [op |-> "created", obj |-> [mutated EXCEPT !.created = TRUE]]
    ELSE [op |-> "unchanged", obj |-> existing]

\* ctrl.CreateOrUpdate: Get; when not found, mutate and Create; else mutate
\* and Update unless the mutation changed nothing.  `mutated` is what the
\* mutate function makes of the object Get filled (the existing one), or of
\* the caller's blank object when Get found none
CreateOrUpdate(existing, mutated) ==
    IF existing = NoChild
    THEN [op |-> "created", obj |-> [mutated EXCEPT !.created = TRUE]]
    ELSE IF mutated = existing
         THEN [op |-> "unchanged", obj |-> existing]
         ELSE [op |-> "updated", obj |-> mutated]

reconcilePVC(node, claim) ==
    LET got == IF claim = NoChild THEN BlankPVC ELSE claim
    IN CreateOrUpdate(claim, specPVC(node, SetControllerReference(node, got)))

reconcileStatefulset(node, set) ==
    LET got == IF set = NoChild THEN BlankStatefulSet ELSE set
    IN CreateOrUpdate(set, specStatefulSet(node, SetControllerReference(node, got),
                                           DefaultPolkadotImage, PolkadotHomeDir,
                                           PolkadotArgs))

\* resource.MustParse panics on a string that is no quantity (the empty one)
StorageParses(spec) == spec.storage # ""
ResourcesParse(spec) ==
    spec.cpu # "" /\ spec.cpuLimit # "" /\ spec.memory # "" /\ spec.memoryLimit # ""

\* where a store call of a reconcile may fail with a transient error
NodeFaults == {"none", "get", "pvc", "sts"}

Outcome(result, claim, pvcOp, set, stsOp) ==
    [result |-> result, pvc |-> claim, pvcOp |-> pvcOp, sts |-> set, stsOp |-> stsOp]

\* a Reconcile that takes the Node as the store holds it, whatever the mode
ReconciledNodeAsStored(st, wh) == updateLabels(st)

\* the Node the children are computed from: the fetched Node, defaulted here
\* if the webhooks are disabled, then labelled
ReconciledNode(st, wh) ==
    updateLabels(IF wh THEN st ELSE [st EXCEPT !.spec = Default(@)])

\* NodeReconciler.Reconcile on a store holding node `st`, claim `claim` and
\* statefulset `set`, with the store call `fault` failing: what it returns
\* and what the store holds afterwards
NodeReconcile(st, wh, claim, set, fault) ==
    IF fault = "get" THEN Outcome("error", claim, "none", set, "none")
    ELSE IF st = NoNode THEN Outcome("notfound", claim, "none", set, "none")
    ELSE
      LET node == ReconciledNode(st, wh)
      IN IF ~StorageParses(node.spec) THEN Outcome("panic", claim, "none", set, "none")
         ELSE IF fault = "pvc" THEN Outcome("error", claim, "none", set, "none")
         ELSE
           LET p == reconcilePVC(node, claim)
           IN IF ~ResourcesParse(node.spec)
              THEN Outcome("panic", p.obj, p.op, set, "none")
              ELSE IF fault = "sts" THEN Outcome("error", p.obj, p.op, set, "none")
              ELSE LET s == reconcileStatefulset(node, set)
                   IN Outcome("ok", p.obj, p.op, s.obj, s.op)

\* one invocation of Reconcile, the store call `fault` failing
ReconcileStep(fault) ==
    \E r \in {NodeReconcile(stored, webhooks, pvc, sts, fault)} :
        /\ pvc' = r.pvc
        /\ sts' = r.sts
        /\ lastRec' = [result |-> r.result, pvcOp |-> r.pvcOp, stsOp |-> r.stsOp]
        /\ UNCHANGED admVars
        /\ UNCHANGED otherThanNode

Reconcile == \E fault \in NodeFaults : ReconcileStep(fault)

\* an invocation of Reconcile none of whose store calls fails
ReconcileOK == ReconcileStep("none")

\* the platform's garbage collector: a child whose owner is gone is deleted
Orphan(child) ==
    /\ child # NoChild
    /\ child.owner # NoOwner
    /\ IF stored = NoNode THEN TRUE ELSE stored.uid # child.owner.uid

CollectPVC ==
    /\ Orphan(pvc)
    /\ pvc' = NoChild
    /\ UNCHANGED <<sts, lastRec>>
    /\ UNCHANGED admVars
    /\ UNCHANGED otherThanNode

CollectStatefulSet ==
    /\ Orphan(sts)
    /\ sts' = NoChild
    /\ UNCHANGED <<pvc, lastRec>>
    /\ UNCHANGED admVars
    /\ UNCHANGED otherThanNode

(***************************************************************************)
(* SpecNode: one Node, created, updated and deleted by its user through    *)
(* the admission pipeline (webhooks enabled or not, fixed for the life of  *)
(* the operator), reconciled at any time, its children collected once it   *)
(* is gone.                                                                *)
(***************************************************************************)
\* requests of this specification: memory 1Gi with a limit of 2Gi (valid) or
\* of 1Gi (invalid), a storage request or none, a storage class or none
NodeRequests ==
    [cpu : {""}, cpuLimit : {""},
     memory : {"1Gi"}, memoryLimit : {"1Gi", "2Gi"},
     storage : StorageInputs, storageClass : StorageClassInputs,
     syncMode : {""}, logging : {""}, rpc : {FALSE}, rpcPort : {0}]

NodeInit ==
    /\ stored = NoNode
    /\ adm = NoReview
    /\ webhooks \in BOOLEAN
    /\ lastUID = 0
    /\ ChildParked
    /\ DefaultParked
    /\ NetParked
    /\ RaceParked
    /\ NearParked
    /\ LabelsParked

NodeSubmit == Submit(NodeRequests, {NoLabels})

NodeNext ==
    \/ NodeSubmit
    \/ Validate
    \/ Respond
    \/ DeleteNode
    \/ Reconcile
    \/ CollectPVC
    \/ CollectStatefulSet

SpecNode == NodeInit /\ [][NodeNext]_vars

(***************************************************************************)
(* SpecClaim: SpecNode over Nodes that differ in what the claim is made    *)
(* from: the storage request, the storage class and the user's labels.     *)
(***************************************************************************)
\* the labels a user may put on the Node
LabelInputs == {NoLabels, [tier |-> "gold"]}

ClaimRequests ==
    [cpu : {""}, cpuLimit : {""},
     memory : {"1Gi"}, memoryLimit : {"2Gi"},
     storage : StorageInputs, storageClass : StorageClassInputs,
     syncMode : {""}, logging : {""}, rpc : {FALSE}, rpcPort : {0}]

ClaimSubmit == Submit(ClaimRequests, LabelInputs)

ClaimNext ==
    \/ ClaimSubmit
    \/ Validate
    \/ Respond
    \/ DeleteNode
    \/ Reconcile
    \/ CollectPVC
    \/ CollectStatefulSet

SpecClaim == NodeInit /\ [][ClaimNext]_vars

(***************************************************************************)
(* SpecLive: a Node whose storage request and labels its user changes,     *)
(* under the scheduling of the controller runtime.  A reconcile request is *)
(* queued for every change of the Node (SetupWithManager: For(&Node{})),   *)
(* and a reconcile that returns an error is queued again; a store call     *)
(* that fails does not fail forever.  Hence: while a reconcile without a   *)
(* failing store call would change the store, one is eventually run.       *)
(***************************************************************************)
\* requests of this specification: a storage request of 1Gi or none
LiveRequests ==
    [cpu : {""}, cpuLimit : {""},
     memory : {"1Gi"}, memoryLimit : {"2Gi"},
     storage : {"", "1Gi"}, storageClass : {""},
     syncMode : {""}, logging : {""}, rpc : {FALSE}, rpcPort : {0}]

LiveSubmit == Submit(LiveRequests, LabelInputs)

LiveNext ==
    \/ LiveSubmit
    \/ Validate
    \/ Respond
    \/ DeleteNode
    \/ Reconcile
    \/ CollectPVC
    \/ CollectStatefulSet

SpecLive == NodeInit /\ [][LiveNext]_vars /\ WF_vars(ReconcileOK)

(***************************************************************************)
(* NetworkReconciler (ethereum).                                           *)
(***************************************************************************)
\* strings.Join
RECURSIVE Join(_, _)
Join(strs, sep) ==
    IF strs = <<>> THEN ""
    ELSE IF Len(strs) = 1 THEN strs[1]
    ELSE strs[1] \o sep \o Join(Tail(strs), sep)

\* a node entry of a Network spec with nothing but its name set
PlainEntry(name) ==
    [name |-> name, syncMode |-> "", miner |-> FALSE, minerAccount |-> "",
     rpc |-> FALSE, rpcPort |-> 0, rpcHost |-> "", rpcAPI |-> <<>>,
     ws |-> FALSE, wsPort |-> 0, wsHost |-> "", wsAPI |-> <<>>,
     hosts |-> <<>>, corsDomains |-> <<>>]

\* a node entry with the sync mode and the HTTP RPC server configured
RPCEntry(name) ==
    [PlainEntry(name) EXCEPT !.syncMode = "fast", !.rpc = TRUE, !.rpcPort = 8545,
                             !.rpcHost = "0.0.0.0", !.rpcAPI = <<"eth", "net">>,
                             !.corsDomains = <<"*">>]

\* createArgsForClient: each flag is there iff its field is set
createArgsForClient(node, join) ==
       (IF join # "" THEN <<"--network", join>> ELSE <<>>)
    \o (IF node.syncMode # "" THEN <<"--sync-mode", node.syncMode>> ELSE <<>>)
    \o (IF node.miner THEN <<"--miner-enabled">> ELSE <<>>)
    \o (IF node.minerAccount # "" THEN <<"--miner-coinbase", node.minerAccount>>
        ELSE <<>>)
    \o (IF node.rpc THEN <<"--rpc-http-enabled">> ELSE <<>>)
    \o (IF node.rpcPort # 0 THEN <<"--rpc-http-port", ToString(node.rpcPort)>>
        ELSE <<>>)
    \o (IF node.rpcHost # "" THEN <<"--rpc-http-host", node.rpcHost>> ELSE <<>>)
    \o (IF Len(node.rpcAPI) # 0 THEN <<"--rpc-http-api", Join(node.rpcAPI, ",")>>
        ELSE <<>>)
    \o (IF node.ws THEN <<"--rpc-ws-enabled">> ELSE <<>>)
    \o (IF node.wsPort # 0 THEN <<"--rpc-ws-port", ToString(node.wsPort)>>
        ELSE <<>>)
    \o (IF node.wsHost # "" THEN <<"--rpc-ws-host", node.wsHost>> ELSE <<>>)
    \o (IF Len(node.wsAPI) # 0 THEN <<"--rpc-ws-api", Join(node.wsAPI, ",")>>
        ELSE <<>>)
    \o (IF Len(node.hosts) # 0 THEN <<"--host-whitelist", Join(node.hosts, ",")>>
        ELSE <<>>)
    \o (IF Len(node.corsDomains) # 0
        THEN <<"--rpc-http-cors-origins", Join(node.corsDomains, ",")>>
        ELSE <<>>)

\* createDeploymentForNode, then SetControllerReference(network, &newDep)
createDeploymentForNode(node, net, args) ==
    [labels |-> [app |-> "node"],
     owner |-> [kind |-> "Network", name |-> net],
     selector |-> [app |-> "node"],
     templateLabels |-> [app |-> "node"],
     container |-> "node", image |-> "hyperledger/besu",
     command |-> <<"besu">>, args |-> args]

\* a deployment of the user's own, labelled as the user chose
UserDeployment(app) ==
    [labels |-> [app |-> app], owner |-> NoOwner,
     selector |-> [app |-> app], templateLabels |-> [app |-> app],
     container |-> "web", image |-> "nginx", command |-> <<>>, args |-> <<>>]

\* the order in which List returns the deployments of the cluster
DepKeySeq ==
    [i \in 1..MaxNodes |-> <<"ns1", "n" \o ToString(i)>>]
        \o << <<"ns2", "b1">>, <<"ns2", "web">> >>

\* r.Client.List(ctx, &deps, client.MatchingLabels{"app": "node"}): every
\* deployment of the cluster with that label, whatever its namespace
ListNodeDeployments(ds) ==
    SelectSeq(DepKeySeq, LAMBDA k : ds[k] # NoChild /\ ds[k].labels.app = "node")

\* where a store call of a Network reconcile may fail with a transient error:
\* the Get of the Network, the List, the i-th Delete, the i-th node's calls
NetFaults ==
    {[at |-> a, i |-> 0] : a \in {"none", "get", "list"}}
        \cup {[at |-> a, i |-> i] : a \in {"delete", "node"}, i \in 1..MaxNodes}

NoFault == [at |-> "none", i |-> 0]

\* a loop that logs the error of a failed Delete and goes on to the next
\* deployment
RECURSIVE DeleteLoopSwallow(_, _, _, _, _)
DeleteLoopSwallow(ds, items, doomed, fault, done) ==
    IF items = <<>> THEN [deps |-> ds, failed |-> FALSE, deleted |-> done]
    ELSE LET k == Head(items) IN
         IF k[2] \notin doomed \/ (fault.at = "delete" /\ fault.i = Cardinality(done) + 1)
         THEN DeleteLoopSwallow(ds, Tail(items), doomed, fault, done)
         ELSE DeleteLoopSwallow([ds EXCEPT ![k] = NoChild], Tail(items), doomed,
                                fault, done \cup {[key |-> k, owner |-> ds[k].owner]})

\* the loop of deleteRedundantNodes over the listed deployments: `doomed` are
\* the names the test in the loop sends to Delete
RECURSIVE DeleteLoop(_, _, _, _, _)
DeleteLoop(ds, items, doomed, fault, done) ==
    IF items = <<>> THEN [deps |-> ds, failed |-> FALSE, deleted |-> done]
    ELSE LET k == Head(items) IN
         IF k[2] \notin doomed THEN DeleteLoop(ds, Tail(items), doomed, fault, done)
         ELSE IF fault.at = "delete" /\ fault.i = Cardinality(done) + 1
              THEN [deps |-> ds, failed |-> TRUE, deleted |-> done]
              ELSE DeleteLoop([ds EXCEPT ![k] = NoChild], Tail(items), doomed,
                              fault, done \cup {[key |-> k, owner |-> ds[k].owner]})

\* deleteRedundantNodes with the test on the name inverted
deleteDeclaredNodes(ds, nodes, ns, fault) ==
    LET names == {nodes[i].name : i \in DOMAIN nodes}
        doomed == {k[2] : k \in DepKeys} \cap names
    IN IF fault.at = "list" THEN [deps |-> ds, failed |-> TRUE, deleted |-> {}]
       ELSE DeleteLoop(ds, ListNodeDeployments(ds), doomed, fault, {})

\* deleteRedundantNodes: deletes every listed deployment whose name is not the
\* name of a node of the spec (ns is not used)
deleteRedundantNodes(ds, nodes, ns, fault) ==
    LET names == {nodes[i].name : i \in DOMAIN nodes}
        doomed == {k[2] : k \in DepKeys} \ names
    IN IF fault.at = "list" THEN [deps |-> ds, failed |-> TRUE, deleted |-> {}]
       ELSE DeleteLoop(ds, ListNodeDeployments(ds), doomed, fault, {})

\* a loop that, when the reconcile of a node fails, goes on with the nodes
\* after it and reports the failure at the end
RECURSIVE NodeLoopGoOn(_, _, _, _, _, _, _)
NodeLoopGoOn(ds, network, net, i, fault, created, updated) ==
    IF i > Len(network.nodes)
    THEN [deps |-> ds, failed |-> fault.at = "node" /\ fault.i <= Len(network.nodes),
          created |-> created, updated |-> updated]
    ELSE IF fault.at = "node" /\ fault.i = i
    THEN NodeLoopGoOn(ds, network, net, i + 1, fault, created, updated)
    ELSE LET node == network.nodes[i]
             k == <<Namespace(net), node.name>>
             newDep == createDeploymentForNode(
                           node, net, createArgsForClient(node, network.join))
         IN NodeLoopGoOn([ds EXCEPT ![k] = newDep], network, net, i + 1, fault,
                         IF ds[k] = NoChild THEN created \cup {k} ELSE created,
                         IF ds[k] = NoChild THEN updated ELSE updated \cup {k})

\* reconcileNode and createOrUpdateNode over the nodes of the spec, in order:
\* Get the deployment, Update it if found, Create it if not
RECURSIVE NodeLoop(_, _, _, _, _, _, _)
NodeLoop(ds, network, net, i, fault, created, updated) ==
    IF i > Len(network.nodes)
    THEN [deps |-> ds, failed |-> FALSE, created |-> created, updated |-> updated]
    ELSE IF fault.at = "node" /\ fault.i = i
    THEN [deps |-> ds, failed |-> TRUE, created |-> created, updated |-> updated]
    ELSE LET node == network.nodes[i]
             k == <<Namespace(net), node.name>>
             newDep == createDeploymentForNode(
                           node, net, createArgsForClient(node, network.join))
         IN NodeLoop([ds EXCEPT ![k] = newDep], network, net, i + 1, fault,
                     IF ds[k] = NoChild THEN created \cup {k} ELSE created,
                     IF ds[k] = NoChild THEN updated ELSE updated \cup {k})

NetOutcome(result, net, ds, deleted, created, updated) ==
    [result |-> result, net |-> net, deps |-> ds, deleted |-> deleted,
     created |-> created, updated |-> updated]

\* a Reconcile that runs the cleanup before it looks at the result of Get: for
\* a Network that is not found it cleans up against an empty list of nodes
NetworkReconcileCleanupFirst(nws, ds, net, fault) ==
    IF fault.at = "get" THEN NetOutcome("error", net, ds, {}, {}, {})
    ELSE
      LET nodes == IF nws[net] = NoNetwork THEN <<>> ELSE nws[net].nodes
          d == deleteRedundantNodes(ds, nodes, Namespace(net), fault)
      IN IF d.failed THEN NetOutcome("error", net, d.deps, d.deleted, {}, {})
         ELSE IF nws[net] = NoNetwork
         THEN NetOutcome("notfound", net, d.deps, d.deleted, {}, {})
         ELSE LET n == NodeLoop(d.deps, nws[net], net, 1, fault, {}, {})
              IN NetOutcome(IF n.failed THEN "error" ELSE "ok", net, n.deps,
                            d.deleted, n.created, n.updated)

\* NetworkReconciler.Reconcile of the Network named net on a store holding the
\* networks nws and the deployments ds, with the store call `fault` failing
NetworkReconcile(nws, ds, net, fault) ==
    IF fault.at = "get" THEN NetOutcome("error", net, ds, {}, {}, {})
    ELSE IF nws[net] = NoNetwork THEN NetOutcome("notfound", net, ds, {}, {}, {})
    ELSE
      LET d == deleteRedundantNodes(ds, nws[net].nodes, Namespace(net), fault)
      IN IF d.failed THEN NetOutcome("error", net, d.deps, d.deleted, {}, {})
         ELSE LET n == NodeLoop(d.deps, nws[net], net, 1, fault, {}, {})
              IN NetOutcome(IF n.failed THEN "error" ELSE "ok", net, n.deps,
                            d.deleted, n.created, n.updated)

ReconcileNetwork ==
    \E net \in NetworkNames, fault \in NetFaults :
        LET r == NetworkReconcile(networks, deps, net, fault)
        IN /\ deps' = r.deps
           /\ lastNet' = [result |-> r.result, net |-> net, deleted |-> r.deleted,
                          created |-> r.created, updated |-> r.updated]
           /\ UNCHANGED networks
           /\ UNCHANGED otherThanNet

(***************************************************************************)
(* SpecNet: two Networks in two namespaces (net-a declares up to MaxNodes  *)
(* nodes, net-b the node b1), applied and deleted by their users and       *)
(* reconciled at any time; a user's own deployment next to them; the       *)
(* deployments of a deleted Network collected by the platform.             *)
(***************************************************************************)
\* sequences of at most n entries with distinct names
RECURSIVE EntryLists(_, _)
EntryLists(names, n) ==
    IF n = 0 \/ names = {} THEN {<<>>}
    ELSE {<<>>} \cup
         UNION {UNION {{<<e>> \o rest : rest \in EntryLists(names \ {nm}, n - 1)}
                       : e \in {PlainEntry(nm), RPCEntry(nm)}}
                : nm \in names}

\* the specs a user may apply to each Network
NetworkSpecs(net) ==
    IF net = "net-a"
    THEN {[join |-> "rinkeby", nodes |-> l] : l \in EntryLists(NodeNames, MaxNodes)}
    ELSE {[join |-> "", nodes |-> <<PlainEntry("b1")>>]}

NetInit ==
    /\ NetParked
    /\ DefaultParked
    /\ AdmParked
    /\ ChildParked
    /\ RaceParked
    /\ NearParked
    /\ LabelsParked

ApplyNetwork ==
    /\ \E net \in NetworkNames :
         \E s \in NetworkSpecs(net) :
            /\ networks[net] # s
            /\ networks' = [networks EXCEPT ![net] = s]
    /\ lastNet' = NoNetRun
    /\ UNCHANGED deps
    /\ UNCHANGED otherThanNet

DeleteNetwork ==
    /\ \E net \in NetworkNames :
         /\ networks[net] # NoNetwork
         /\ networks' = [networks EXCEPT ![net] = NoNetwork]
    /\ lastNet' = NoNetRun
    /\ UNCHANGED deps
    /\ UNCHANGED otherThanNet

\* the user creates or deletes a deployment of their own
UserDeploy ==
    /\ \E d \in {NoChild, UserDeployment("web"), UserDeployment("node")} :
         /\ deps[<<"ns2", "web">>] # d
         /\ deps' = [deps EXCEPT ![<<"ns2", "web">>] = d]
    /\ lastNet' = NoNetRun
    /\ UNCHANGED networks
    /\ UNCHANGED otherThanNet

\* the platform's garbage collector: a deployment whose owner is gone
CollectDeployment ==
    /\ \E k \in DepKeys :
         /\ deps[k] # NoChild
         /\ deps[k].owner # NoOwner
         /\ networks[deps[k].owner.name] = NoNetwork
         /\ deps' = [deps EXCEPT ![k] = NoChild]
    /\ lastNet' = NoNetRun
    /\ UNCHANGED networks
    /\ UNCHANGED otherThanNet

NetNext ==
    \/ ApplyNetwork
    \/ DeleteNetwork
    \/ UserDeploy
    \/ ReconcileNetwork
    \/ CollectDeployment

SpecNet == NetInit /\ [][NetNext]_vars

(***************************************************************************)
(* SpecRace: one child object, the reconcile of it step by step (the Get,  *)
(* then the Create or Update), and the store's other clients writing and   *)
(* deleting the object at any time, between the two steps included.  The   *)
(* child is the statefulset of a Node (kind "node": ctrl.CreateOrUpdate)   *)
(* or the deployment of a Network's node (kind "network": reconcileNode    *)
(* and createOrUpdateNode).                                                *)
(***************************************************************************)
RaceKinds == {"node", "network"}

\* what the reconciler computes for the child from the spec it fetched
DesiredInputs == {"spec-1", "spec-2"}

StoredChild(version, data) == [version |-> version, data |-> data]

StoreAnswer(obj, version, err) == [obj |-> obj, version |-> version, err |-> err]

\* r.Client.Create: refused when an object of that name exists
StoreCreate(obj, version, data) ==
    IF obj # NoChild THEN StoreAnswer(obj, version, "exists")
    ELSE StoreAnswer(StoredChild(version + 1, data), version + 1, "")

\* r.Client.Update of an object carrying the resource version rv (0: none, as
\* of an object that was not read from the store): not found when the object
\* is gone, a conflict when rv is not the stored version
StoreUpdate(obj, version, data, rv) ==
    IF obj = NoChild THEN StoreAnswer(obj, version, "notfound")
    ELSE IF rv # 0 /\ rv # obj.version THEN StoreAnswer(obj, version, "conflict")
    ELSE StoreAnswer(StoredChild(version + 1, data), version + 1, "")

\* the second half of ctrl.CreateOrUpdate, `seen` being what its Get found:
\* Create the mutated object, or Update the object it read unless the
\* mutation changed nothing
CreateOrUpdateWrite(seen, obj, version, desired) ==
    IF seen = NoChild THEN StoreCreate(obj, version, desired)
    ELSE IF seen.data = desired THEN StoreAnswer(obj, version, "")
    ELSE StoreUpdate(obj, version, desired, seen.version)

\* createOrUpdateNode: Update or Create the deployment built anew from the
\* spec, `seen` being what the Get of reconcileNode found
createOrUpdateNode(seen, obj, version, desired) ==
    IF seen # NoChild THEN StoreUpdate(obj, version, desired, 0)
    ELSE StoreCreate(obj, version, desired)

\* the Get of the child at the start of its reconcile
RaceGet ==
    /\ rRun.pc = "idle"
    /\ \E kind \in RaceKinds, d \in DesiredInputs :
          rRun' = [NoRace EXCEPT !.kind = kind, !.pc = "got", !.desired = d,
                                 !.seen = rObj]
    /\ UNCHANGED <<rObj, rVersion>>
    /\ UNCHANGED otherThanRace

\* the Create or Update, and the return of its error if it has one
RaceWrite ==
    /\ rRun.pc = "got"
    /\ rVersion < MaxVersion
    /\ LET w == IF rRun.kind = "node"
                THEN CreateOrUpdateWrite(rRun.seen, rObj, rVersion, rRun.desired)
                ELSE createOrUpdateNode(rRun.seen, rObj, rVersion, rRun.desired)
           sent == w.version # rVersion \/ w.err # ""
       IN /\ rObj' = w.obj
          /\ rVersion' = w.version
          /\ rRun' = [rRun EXCEPT
                 !.pc = "done",
                 !.result = IF w.err = "" THEN "ok" ELSE "error",
                 !.err = w.err,
                 !.stale = sent /\ rRun.seen # NoChild /\ rObj # NoChild
                                /\ rObj # rRun.seen,
                 !.missed = sent /\ rRun.seen # NoChild /\ rObj = NoChild,
                 !.overwrote = w.err = "" /\ w.obj # rObj /\ rObj # NoChild
                                /\ rObj # rRun.seen]
    /\ UNCHANGED otherThanRace

\* Reconcile has returned; the next one may start
RaceReturn ==
    /\ rRun.pc = "done"
    /\ rRun' = NoRace
    /\ UNCHANGED <<rObj, rVersion>>
    /\ UNCHANGED otherThanRace

\* another client of the store creates or updates the object
OtherWrite ==
    /\ rVersion < MaxVersion
    /\ rObj' = StoredChild(rVersion + 1, "foreign")
    /\ rVersion' = rVersion + 1
    /\ UNCHANGED rRun
    /\ UNCHANGED otherThanRace

\* another client of the store deletes the object
OtherDelete ==
    /\ rObj # NoChild
    /\ rObj' = NoChild
    /\ UNCHANGED <<rVersion, rRun>>
    /\ UNCHANGED otherThanRace

RaceInit ==
    /\ RaceParked
    /\ NearParked
    /\ LabelsParked
    /\ DefaultParked
    /\ AdmParked
    /\ ChildParked
    /\ NetParked

RaceNext ==
    \/ RaceGet
    \/ RaceWrite
    \/ RaceReturn
    \/ OtherWrite
    \/ OtherDelete

SpecRace == RaceInit /\ [][RaceNext]_vars

(***************************************************************************)
(* NearClient (NEAR core client).                                          *)
(***************************************************************************)
\* how many bootnodes a NEAR node spec may list
MaxBootnodes == 2

NearHomeDir == "/home/near"

\* the flags of neard (clients/near: the NearArg... constants)
NearArgHome == "--home"
NearArgNetworkAddress == "--network-addr"
NearArgRPCAddress == "--rpc-addr"
NearArgPrometheusAddress == "--rpc-prometheus-addr"
NearArgDisableRPC == "--disable-rpc"
NearArgTelemetryURL == "--telemetry-url"
NearArgArchive == "--archive"
NearArgMinimumPeers == "--min-peers"
NearArgBootnodes == "--boot-nodes"

\* fmt.Sprintf("%s:%d", host, port)
HostPort(host, port) == host \o ":" \o ToString(port)

\* an Args that passes the RPC and Prometheus addresses whatever spec.rpc says
NearArgsRPCAlways(spec) ==
    <<"neard">>
    \o <<NearArgHome, PathData(NearHomeDir)>>
    \o <<"run">>
    \o <<NearArgNetworkAddress, HostPort(spec.p2pHost, spec.p2pPort)>>
    \o <<NearArgRPCAddress, HostPort(spec.rpcHost, spec.rpcPort),
         NearArgPrometheusAddress,
         HostPort(spec.prometheusHost, spec.prometheusPort)>>
    \o (IF spec.telemetryURL # ""
        THEN <<NearArgTelemetryURL, spec.telemetryURL>> ELSE <<>>)
    \o (IF spec.archive THEN <<NearArgArchive>> ELSE <<>>)
    \o <<NearArgMinimumPeers, ToString(spec.minPeers)>>
    \o (IF Len(spec.bootnodes) # 0
        THEN <<NearArgBootnodes, Join(spec.bootnodes, ",")>> ELSE <<>>)

\* NearClient.Args: the arguments are appended in this order
NearArgs(spec) ==
    <<"neard">>
    \o <<NearArgHome, PathData(NearHomeDir)>>
    \o <<"run">>
    \o <<NearArgNetworkAddress, HostPort(spec.p2pHost, spec.p2pPort)>>
    \o (IF spec.rpc
        THEN <<NearArgRPCAddress, HostPort(spec.rpcHost, spec.rpcPort),
               NearArgPrometheusAddress,
               HostPort(spec.prometheusHost, spec.prometheusPort)>>
        ELSE <<NearArgDisableRPC>>)
    \o (IF spec.telemetryURL # ""
        THEN <<NearArgTelemetryURL, spec.telemetryURL>> ELSE <<>>)
    \o (IF spec.archive THEN <<NearArgArchive>> ELSE <<>>)
    \o <<NearArgMinimumPeers, ToString(spec.minPeers)>>
    \o (IF Len(spec.bootnodes) # 0
        THEN <<NearArgBootnodes, Join(spec.bootnodes, ",")>> ELSE <<>>)

(***************************************************************************)
(* SpecNear: NearClient.Args called once on a client made for an arbitrary *)
(* NEAR node spec.                                                         *)
(***************************************************************************)
BootnodeInputs ==
    {"ed25519:a@10.0.0.1:24567", "ed25519:b@10.0.0.2:24567"}

\* the lists of at most MaxBootnodes bootnodes
BootnodeLists ==
    UNION {[1..n -> BootnodeInputs] : n \in 0..MaxBootnodes}

NearSpecs ==
    [p2pHost : {"0.0.0.0"}, p2pPort : {24567},
     rpc : BOOLEAN, rpcHost : {"127.0.0.1"}, rpcPort : {3030},
     prometheusHost : {"0.0.0.0"}, prometheusPort : {9615},
     telemetryURL : {"", "https://explorer.mainnet.near.org/api/nodes"},
     archive : BOOLEAN, minPeers : {0, 5},
     bootnodes : BootnodeLists]

NearInit ==
    /\ nSpec \in NearSpecs
    /\ nArgs = <<>>
    /\ DefaultParked
    /\ AdmParked
    /\ ChildParked
    /\ NetParked
    /\ RaceParked
    /\ LabelsParked

\* the reconciler asks the client for the container's arguments
CallArgs ==
    /\ nArgs = <<>>
    /\ nArgs' = NearArgs(nSpec)
    /\ UNCHANGED nSpec
    /\ UNCHANGED otherThanNear

NearNext == CallArgs

SpecNear == NearInit /\ [][NearNext]_vars

(***************************************************************************)
(* SpecLabels: updateLabels called, once and again, on a Node fetched with *)
(* arbitrary labels: none, the user's own, identifying keys already set    *)
(* (to the controller's value or to another).                              *)
(***************************************************************************)
\* how many times updateLabels is called on the same Node
MaxMerges == 2

\* the keys a fetched Node may carry: the identifying ones and a user's own
LabelKeyInputs == FixedLabelKeys \cup {"tier"}

\* the values a label may hold: "kotal" is the controller's value of
\* managed-by, "gold" is the controller's value of no key
LabelValueInputs == {"kotal", "gold"}

\* node.Labels: nil (no labels) or a map over some of the keys
LabelMaps == UNION {[K -> LabelValueInputs] : K \in SUBSET LabelKeyInputs}

LabelsInit ==
    /\ lIn \in {NodeObject(EmptySpec, 1, m) : m \in LabelMaps}
    /\ lOut = lIn
    /\ lCount = 0
    /\ DefaultParked
    /\ AdmParked
    /\ ChildParked
    /\ NetParked
    /\ RaceParked
    /\ NearParked

\* the reconciler calls updateLabels on the Node it holds
CallUpdateLabels ==
    /\ lCount < MaxMerges
    /\ lOut' = updateLabels(lOut)
    /\ lCount' = lCount + 1
    /\ UNCHANGED lIn
    /\ UNCHANGED otherThanLabels

LabelsNext == CallUpdateLabels

SpecLabels == LabelsInit /\ [][LabelsNext]_vars

(***************************************************************************)
(* Claims about defaulting (checked under SpecDefault).                    *)
(***************************************************************************)
\* the fields Default fills when they are empty strings
StringDefaulted ==
    {"cpu", "cpuLimit", "memory", "memoryLimit", "storage", "syncMode", "logging"}

\* C6: defaulting is idempotent: once Default has been applied, applying it
\* again gives the spec that one application gave
C6_DefaultIdempotent ==
    dCount >= 1 => dOut = Default(dIn)

\* C6 witness: Default ran twice on a spec in which it had fields to fill
C6_Witness ==
    /\ dCount = 2
    /\ dIn.cpu = "" /\ dIn.logging = "" /\ dIn.rpc /\ dIn.rpcPort = 0
    /\ dOut # dIn

\* C7: Default overwrites only empty/zero fields: a field that was set before
\* Default has the same value after it, and the fields Default never fills
\* (storageClass, rpc) are unchanged
C7_DefaultKeepsSetFields ==
    /\ \A f \in StringDefaulted : dIn[f] # "" => dOut[f] = dIn[f]
    /\ dIn.rpcPort # 0 => dOut.rpcPort = dIn.rpcPort
    /\ dOut.storageClass = dIn.storageClass
    /\ dOut.rpc = dIn.rpc

\* C7 witness: Default ran on a spec with every defaultable field set, next to
\* one (storage) that it had to fill
C7_Witness ==
    /\ dCount >= 1
    /\ \A f \in StringDefaulted \ {"storage"} : dIn[f] # ""
    /\ dIn.rpcPort # 0
    /\ dIn.cpu # DefaultNodeCPURequest
    /\ dIn.storage = "" /\ dOut.storage = DefaultNodeStorageRequest

\* C8: after Default, the port is the default port if RPC is enabled and the
\* port was zero; with RPC disabled the port is unchanged (zero stays zero)
C8_RPCPortOnlyWhenEnabled ==
    dCount >= 1 =>
        /\ (dIn.rpc /\ dIn.rpcPort = 0) => dOut.rpcPort = DefaultRPCPort
        /\ ~dIn.rpc => dOut.rpcPort = dIn.rpcPort

\* C8 witness: Default ran on a spec with RPC disabled and no port, and left
\* the port at zero
C8_Witness ==
    dCount >= 1 /\ ~dIn.rpc /\ dIn.rpcPort = 0 /\ dOut.rpcPort = 0

(***************************************************************************)
(* Claims about validation (checked under SpecAdm).                        *)
(***************************************************************************)
\* a review whose validation has run
Reviewed == adm.phase = "validated"

\* the errors of a list that are about one field
ErrorsOn(errs, path) == SelectSeq(errs, LAMBDA e : e.field = path)

\* C1: on create of a defaulted spec, the memory check passes iff the limit is
\* strictly greater than the request; otherwise there is exactly one Invalid
\* error on spec.resources.memoryLimit, its bad value the limit, its detail
\* "must be greater than memory <request>"
C1_MemoryLimitStrict ==
    (Reviewed /\ adm.op = "create") =>
        LET s == adm.obj.spec
            got == ErrorsOn(adm.errs, "spec.resources.memoryLimit")
        IN IF ParseMemory(s.memoryLimit) > ParseMemory(s.memory)
           THEN got = <<>>
           ELSE got = <<[type |-> "FieldValueInvalid",
                         field |-> "spec.resources.memoryLimit",
                         badValue |-> s.memoryLimit,
                         detail |-> "must be greater than memory " \o s.memory]>>

\* C1 witness: memory 1Gi with memoryLimit 1Gi on create gives exactly one
\* error, on the memory limit, and the request is rejected
C1_Witness ==
    /\ Reviewed /\ adm.op = "create"
    /\ adm.obj.spec.memory = "1Gi" /\ adm.obj.spec.memoryLimit = "1Gi"
    /\ Len(adm.errs) = 1
    /\ adm.errs[1].field = "spec.resources.memoryLimit"
    /\ adm.errs[1].detail = "must be greater than memory 1Gi"
    /\ stored = NoNode

\* C2: on create, with cpu request and limit both set, the cpu check passes
\* iff the limit is greater than or equal to the request; otherwise there is
\* exactly one Invalid error on spec.resources.cpuLimit, its bad value the
\* limit, its detail "must be greater than or equal to cpu <request>"
C2_CPULimitAtLeastRequest ==
    (Reviewed /\ adm.op = "create"
        /\ adm.obj.spec.cpu # "" /\ adm.obj.spec.cpuLimit # "") =>
        LET s == adm.obj.spec
            got == ErrorsOn(adm.errs, "spec.resources.cpuLimit")
        IN IF ParseCPU(s.cpuLimit) >= ParseCPU(s.cpu)
           THEN got = <<>>
           ELSE got = <<[type |-> "FieldValueInvalid",
                         field |-> "spec.resources.cpuLimit",
                         badValue |-> s.cpuLimit,
                         detail |-> "must be greater than or equal to cpu "
                                    \o s.cpu]>>

\* C2 witness: cpu 2 with cpuLimit 1 on create gives exactly one error, on the
\* cpu limit
C2_Witness ==
    /\ Reviewed /\ adm.op = "create"
    /\ adm.obj.spec.cpu = "2" /\ adm.obj.spec.cpuLimit = "1"
    /\ Len(adm.errs) = 1
    /\ adm.errs[1].field = "spec.resources.cpuLimit"
    /\ adm.errs[1].badValue = "1"
    /\ adm.errs[1].detail = "must be greater than or equal to cpu 2"

\* C3: whatever the old spec, valid or not, the cpu-limit and memory-limit
\* errors validateUpdate(old, new) reports are exactly those
\* validateCreate(new) reports
C3_UpdateChecksLikeCreate ==
    (Reviewed /\ adm.op = "update") =>
        \A path \in {"spec.resources.cpuLimit", "spec.resources.memoryLimit"} :
            ErrorsOn(adm.errs, path) = ErrorsOn(ValidateCreate(adm.obj.spec), path)

\* C3 witness: an update of an invalid old spec to a spec with a memory-limit
\* violation and a changed storage class
C3_Witness ==
    /\ Reviewed /\ adm.op = "update"
    /\ ValidateCreate(adm.old.spec) # <<>>
    /\ adm.obj.spec.storageClass # adm.old.spec.storageClass
    /\ ErrorsOn(adm.errs, "spec.resources.memoryLimit") # <<>>
    /\ Len(adm.errs) = 2

\* C5: a spec that violates both the cpu policy and the memory policy gets
\* both errors in one list, on create and on update
C5_ErrorsAccumulate ==
    (Reviewed /\ adm.op \in {"create", "update"}
        /\ ParseCPU(adm.obj.spec.cpuLimit) < ParseCPU(adm.obj.spec.cpu)
        /\ ParseMemory(adm.obj.spec.memoryLimit) <= ParseMemory(adm.obj.spec.memory)) =>
        /\ ErrorsOn(adm.errs, "spec.resources.cpuLimit") # <<>>
        /\ ErrorsOn(adm.errs, "spec.resources.memoryLimit") # <<>>

\* C5 witness: an update whose new spec breaks both policies is rejected with
\* the two errors
C5_Witness ==
    /\ Reviewed /\ adm.op = "update"
    /\ adm.obj.spec.cpu = "2" /\ adm.obj.spec.cpuLimit = "1"
    /\ adm.obj.spec.memory = "1Gi" /\ adm.obj.spec.memoryLimit = "1Gi"
    /\ Len(adm.errs) >= 2
    /\ stored = adm.old

(***************************************************************************)
(* Claims about the Node's admission and reconcile (under SpecNode).       *)
(***************************************************************************)
\* the resources of a statefulset satisfy the validation policy
PolicyHolds(set) ==
    /\ set.limits.cpu >= set.requests.cpu
    /\ set.limits.memory > set.requests.memory

\* C4: a request that fails validation is rejected with no cluster mutation:
\* the step that answers it leaves the stored Node as it was and creates,
\* updates or deletes no child; and with the webhooks enabled no statefulset
\* ever carries resources that validation rejects
C4_RejectedNoMutation ==
    /\ []((webhooks /\ sts # NoChild) => PolicyHolds(sts))
    /\ [][(adm.phase = "validated" /\ adm.errs # <<>> /\ adm'.phase = "answered")
             => (stored' = stored /\ pvc' = pvc /\ sts' = sts)]_vars

\* C4 witness: an update (memory 1Gi/2Gi to 1Gi/1Gi) has just been rejected;
\* the stored Node still has the old limit and the children, reconciled
\* before, are there
C4_Witness ==
    /\ adm.phase = "answered" /\ adm.op = "update" /\ ~adm.allowed
    /\ stored # NoNode /\ stored.spec.memoryLimit = "2Gi"
    /\ pvc # NoChild /\ sts # NoChild
    /\ sts.limits.memory = ParseMemory("2Gi")

(***************************************************************************)
(* SpecRec: both reconcilers.  A behaviour is a behaviour of SpecNode or   *)
(* one of SpecNet: the Node's group of variables moves only while the      *)
(* Networks' group is parked, and the other way round.                     *)
(***************************************************************************)
RecInit == NodeInit \/ NetInit

RecNext ==
    \/ NetParked /\ NodeNext
    \/ AdmParked /\ ChildParked /\ NetNext

SpecRec == RecInit /\ [][RecNext]_vars

(***************************************************************************)
(* Claims about the reconcilers.                                           *)
(***************************************************************************)
\* a second NodeReconciler.Reconcile after a successful one, the Node and the
\* store otherwise unchanged: the children stay as the first run left them,
\* and nothing is created or updated
NodeReconcileIdempotent ==
    LET r1 == NodeReconcile(stored, webhooks, pvc, sts, "none") IN
    r1.result = "ok" =>
        LET r2 == NodeReconcile(stored, webhooks, r1.pvc, r1.sts, "none") IN
        /\ r2.result = "ok"
        /\ r2.pvc = r1.pvc /\ r2.sts = r1.sts
        /\ r2.pvcOp = "unchanged" /\ r2.stsOp = "unchanged"

\* the same of NetworkReconciler.Reconcile, for each Network: the deployments
\* stay as the first run left them, and none is created or deleted
NetworkReconcileIdempotent ==
    \A net \in NetworkNames :
        LET r1 == NetworkReconcile(networks, deps, net, NoFault) IN
        r1.result = "ok" =>
            LET r2 == NetworkReconcile(networks, r1.deps, net, NoFault) IN
            /\ r2.result = "ok"
            /\ r2.deps = r1.deps
            /\ r2.created = {} /\ r2.deleted = {}

\* C9: Reconcile is idempotent: from every reachable state, running Reconcile
\* a second time with the Node (or Network) spec and the store otherwise
\* unchanged leaves every stored child object equal to its state after the
\* first run, and creates or deletes no object
C9_ReconcileIdempotent ==
    NodeReconcileIdempotent /\ NetworkReconcileIdempotent

\* C9 witness: a Reconcile has just run on a Node whose claim and statefulset
\* an earlier Reconcile had brought to the spec, and changed neither
C9_Witness ==
    /\ lastRec.result = "ok"
    /\ lastRec.pvcOp = "unchanged" /\ lastRec.stsOp = "unchanged"
    /\ stored # NoNode /\ pvc # NoChild /\ sts # NoChild
    /\ pvc.requests = ParseMemory(Default(stored.spec).storage)

\* the names a Network declares
Declared(net) ==
    IF networks[net] = NoNetwork THEN {}
    ELSE {networks[net].nodes[i].name : i \in DOMAIN networks[net].nodes}

OwnedBy(net) == [kind |-> "Network", name |-> net]

\* C10: a successful reconcile of a Network deletes exactly the deployments
\* created for that Network whose names are no longer declared: every
\* deployment it deleted was one of that Network's with an undeclared name,
\* none of that Network's with an undeclared name is left, and it created or
\* updated nothing but the declared nodes' deployments
C10_DeletesExactlyUndeclared ==
    lastNet.result = "ok" =>
        /\ \A d \in lastNet.deleted :
              d.owner = OwnedBy(lastNet.net) /\ d.key[2] \notin Declared(lastNet.net)
        /\ \A k \in DepKeys :
              (deps[k] # NoChild /\ deps[k].owner = OwnedBy(lastNet.net))
                  => k[2] \in Declared(lastNet.net)
        /\ \A k \in lastNet.created \cup lastNet.updated :
              k[1] = Namespace(lastNet.net) /\ k[2] \in Declared(lastNet.net)

\* a child of the Node carries a controller reference to a Node of that name
\* the store has created
OwnedByNode(child) ==
    /\ child.owner # NoOwner
    /\ child.owner.kind = "Node" /\ child.owner.name = NodeName
    /\ child.owner.uid \in 1..lastUID

\* a deployment made by createDeploymentForNode
NodeDeployment(d) == d # NoChild /\ d.container = "node"

\* C11: every claim, statefulset and node deployment in the store carries a
\* controller reference to its Node (or to the Network of its namespace); so
\* when the owner is gone and the garbage collector has nothing left to
\* collect, no child of it remains
C11_ChildrenOwned ==
    /\ pvc # NoChild => OwnedByNode(pvc)
    /\ sts # NoChild => OwnedByNode(sts)
    /\ (stored = NoNode /\ ~Orphan(pvc) /\ ~Orphan(sts))
           => (pvc = NoChild /\ sts = NoChild)
    /\ \A k \in DepKeys :
          NodeDeployment(deps[k]) =>
              /\ deps[k].owner # NoOwner
              /\ deps[k].owner.kind = "Network"
              /\ Namespace(deps[k].owner.name) = k[1]
    /\ \A net \in NetworkNames :
          (networks[net] = NoNetwork
              /\ \A k \in DepKeys :
                    ~(deps[k] # NoChild /\ deps[k].owner = OwnedBy(net)))
          => \A k \in DepKeys :
                k[1] = Namespace(net) => ~NodeDeployment(deps[k])

\* C11 witness: a reconcile created the claim and the statefulset, the Node
\* was deleted, and the garbage collector has removed both
C11_Witness ==
    /\ stored = NoNode /\ lastUID >= 1
    /\ lastRec.result = "ok" /\ lastRec.pvcOp = "created" /\ lastRec.stsOp = "created"
    /\ pvc = NoChild /\ sts = NoChild

\* C12: when the Node (or Network) is not found, Reconcile returns without an
\* error and leaves the store as it is; it makes no further store call, so
\* no later call can fail either
C12_NotFoundStops ==
    /\ stored = NoNode =>
          \A fault \in NodeFaults \ {"get"} :
              NodeReconcile(stored, webhooks, pvc, sts, fault)
                  = Outcome("notfound", pvc, "none", sts, "none")
    /\ \A net \in NetworkNames :
          networks[net] = NoNetwork =>
              \A fault \in NetFaults :
                  fault.at # "get" =>
                      NetworkReconcile(networks, deps, net, fault)
                          = NetOutcome("notfound", net, deps, {}, {}, {})
    /\ lastNet.result = "notfound" =>
          /\ networks[lastNet.net] = NoNetwork
          /\ lastNet.deleted = {} /\ lastNet.created = {} /\ lastNet.updated = {}

\* C12 witness: a Network was deleted while its deployment and a user's
\* deployment labelled app=node were in the store; its reconcile found no
\* Network and stopped, both deployments still there
C12_Witness ==
    /\ lastNet.result = "notfound" /\ lastNet.net = "net-a"
    /\ networks["net-a"] = NoNetwork
    /\ deps[<<"ns1", "n1">>] # NoChild
    /\ deps[<<"ns2", "web">>] = UserDeployment("node")

(***************************************************************************)
(* Claims about the persistent volume claim (under SpecClaim).             *)
(***************************************************************************)
\* C13: a step that leaves an existing claim in the store changes neither its
\* storage class, nor its access modes, nor its labels; a step that creates
\* the claim gives it the storage request of the defaulted spec, the Node's
\* storage class and the Node's labels
C13_ClaimSpecFrame ==
    /\ [][(pvc # NoChild /\ pvc' # NoChild) =>
             /\ pvc'.storageClass = pvc.storageClass
             /\ pvc'.accessModes = pvc.accessModes
             /\ pvc'.labels = pvc.labels]_vars
    /\ [][(pvc = NoChild /\ pvc' # NoChild) =>
             /\ pvc'.requests = ParseMemory(Default(stored.spec).storage)
             /\ pvc'.storageClass = stored.spec.storageClass
             /\ pvc'.accessModes = <<"ReadWriteOnce">>
             /\ pvc'.labels = updateLabels(stored).labels]_vars

\* C13 witness: a reconcile has updated the claim for a Node whose storage
\* class and labels are not those the claim was created with, and the claim
\* has kept its own
C13_Witness ==
    /\ stored # NoNode /\ pvc # NoChild
    /\ lastRec.result = "ok" /\ lastRec.pvcOp = "updated"
    /\ pvc.owner.uid = stored.uid
    /\ pvc.requests = ParseMemory(Default(stored.spec).storage)
    /\ pvc.storageClass # stored.spec.storageClass
    /\ pvc.labels # updateLabels(stored).labels

\* C14: while the claim exists, no step lowers its storage request or changes
\* its storage class
C14_ClaimOnlyGrows ==
    [][(pvc # NoChild /\ pvc' # NoChild) =>
          /\ pvc'.requests >= pvc.requests
          /\ pvc'.storageClass = pvc.storageClass]_vars

(***************************************************************************)
(* Claims about concurrent writers (under SpecRace).                       *)
(***************************************************************************)
\* C15: a reconcile whose update met an object that another client had
\* changed since the reconciler read it ends well, having retried on a fresh
\* read, and has not overwritten the other client's write
C15_ConflictRetried ==
    (rRun.pc = "done" /\ rRun.stale) =>
        (rRun.result = "ok" /\ ~rRun.overwrote)

\* C16: a reconcile that saw the child and whose update found it gone has
\* created it again: it does not end without the child
C16_NotFoundRecreates ==
    (rRun.pc = "done" /\ rRun.missed) =>
        (rRun.result = "ok" /\ rObj # NoChild /\ rObj.data = rRun.desired)

(***************************************************************************)
(* Claims about failing store calls (under SpecRec).                       *)
(***************************************************************************)
\* the store calls a Network reconcile makes on the present store, one after
\* the other, as the faults that make them fail: the Get, then (if the Network
\* is found) the List, each Delete, and each node's calls
NetCallsMade(net) ==
    {[at |-> "get", i |-> 0]} \cup
    IF networks[net] = NoNetwork THEN {}
    ELSE LET r == NetworkReconcile(networks, deps, net, NoFault) IN
         {[at |-> "list", i |-> 0]}
           \cup {[at |-> "delete", i |-> i] : i \in 1..Cardinality(r.deleted)}
           \cup {[at |-> "node", i |-> i] : i \in 1..Len(networks[net].nodes)}

\* the same of a Node reconcile
NodeCallsMade ==
    {"get"} \cup
    IF stored = NoNode THEN {}
    ELSE LET r == NodeReconcile(stored, webhooks, pvc, sts, "none") IN
         (IF r.result = "panic" /\ r.pvcOp = "none" THEN {} ELSE {"pvc"})
           \cup (IF r.result = "panic" THEN {} ELSE {"sts"})

\* C17: from every reachable store, a reconcile in which a store call fails
\* returns an error, whichever call it is; and a reconcile that reports
\* success has left the store as the reconcile without a failure leaves it
C17_ErrorsReturned ==
    /\ \A fault \in NodeFaults \ {"none"} :
          LET r == NodeReconcile(stored, webhooks, pvc, sts, fault) IN
          /\ fault \in NodeCallsMade => r.result = "error"
          /\ r.result \in {"ok", "notfound"} =>
                r = NodeReconcile(stored, webhooks, pvc, sts, "none")
    /\ \A net \in NetworkNames :
          \A fault \in NetFaults \ {NoFault} :
              LET r == NetworkReconcile(networks, deps, net, fault) IN
              /\ fault \in NetCallsMade(net) => r.result = "error"
              /\ r.result \in {"ok", "notfound"} =>
                    r = NetworkReconcile(networks, deps, net, NoFault)

\* C17 witness: a reconcile of net-a has deleted a deployment, then a later
\* call of it failed, and it returned the error
C17_Witness ==
    /\ lastNet.result = "error" /\ lastNet.net = "net-a"
    /\ lastNet.deleted # {}
    /\ networks["net-a"] # NoNetwork

(***************************************************************************)
(* Claims about the Node at reconcile time (under SpecNode).               *)
(***************************************************************************)
\* C18: the Node the children are computed from has its cpu request, cpu
\* limit, memory request, memory limit and storage request set, with the
\* webhooks enabled (the stored Node, defaulted at admission) and disabled
\* (the stored Node, defaulted by the reconcile); so no reconcile ever fails
\* to parse a quantity
C18_ResourcesSetAtReconcile ==
    /\ stored # NoNode =>
          LET node == ReconciledNode(stored, webhooks) IN
          /\ \A f \in {"cpu", "cpuLimit", "memory", "memoryLimit", "storage"} :
                node.spec[f] # ""
          /\ node.spec = IF webhooks THEN stored.spec ELSE Default(stored.spec)
          /\ \A fault \in NodeFaults :
                NodeReconcile(stored, webhooks, pvc, sts, fault).result # "panic"
    /\ lastRec.result # "panic"

\* C18 witness: with the webhooks disabled, a Node stored without cpu and
\* storage has been reconciled, and its children carry the defaults
C18_Witness ==
    /\ ~webhooks /\ stored # NoNode
    /\ stored.spec.cpu = "" /\ stored.spec.storage = ""
    /\ lastRec.result = "ok"
    /\ pvc # NoChild /\ pvc.requests = ParseMemory(DefaultNodeStorageRequest)
    /\ sts # NoChild /\ sts.owner.uid = stored.uid
    /\ sts.requests.cpu = ParseCPU(DefaultNodeCPURequest)

(***************************************************************************)
(* Claims about the order of a Network reconcile (under SpecNet).          *)
(***************************************************************************)
\* the keys of the first n nodes of a Network's spec
PrefixKeys(net, n) ==
    {<<Namespace(net), networks[net].nodes[j].name>> : j \in 1..n}

\* C19: from every reachable store and for every failing call: a failure in
\* the cleanup (the List or a Delete) is returned and no node is created or
\* updated; a failure in the reconcile of the i-th node is returned after the
\* whole cleanup and after the nodes 1 .. i-1, in spec order, and no node
\* after them is created or updated; without a failure every node is
\* reconciled after the whole cleanup
C19_CleanupThenNodesInOrder ==
    \A net \in NetworkNames :
        networks[net] # NoNetwork =>
            LET whole == NetworkReconcile(networks, deps, net, NoFault)
                n == Len(networks[net].nodes)
            IN /\ whole.result = "ok"
               /\ whole.created \cup whole.updated = PrefixKeys(net, n)
               /\ \A fault \in NetFaults :
                     LET r == NetworkReconcile(networks, deps, net, fault) IN
                     /\ (fault.at = "list"
                           \/ (fault.at = "delete"
                                 /\ fault.i <= Cardinality(whole.deleted))) =>
                           /\ r.result = "error"
                           /\ r.created = {} /\ r.updated = {}
                           /\ r.deleted \subseteq whole.deleted
                           /\ \A k \in DepKeys : r.deps[k] \in {deps[k], NoChild}
                     /\ (fault.at = "node" /\ fault.i <= n) =>
                           /\ r.result = "error"
                           /\ r.deleted = whole.deleted
                           /\ r.created \cup r.updated = PrefixKeys(net, fault.i - 1)
                           /\ \A j \in fault.i..n :
                                 LET k == <<Namespace(net), networks[net].nodes[j].name>>
                                 IN k \notin PrefixKeys(net, fault.i - 1)
                                        => r.deps[k] = deps[k]

\* C19 witness: a reconcile of net-a, which declares two nodes, has created
\* the first, failed on the second and returned the error: the second node
\* has no deployment
C19_Witness ==
    /\ lastNet.result = "error" /\ lastNet.net = "net-a"
    /\ networks["net-a"] # NoNetwork /\ Len(networks["net-a"].nodes) = 2
    /\ lastNet.created = PrefixKeys("net-a", 1)
    /\ deps[<<"ns1", networks["net-a"].nodes[2].name>>] = NoChild

\* C20: whatever the interleaving of the Networks' reconciles, a reconcile
\* deletes no deployment of another namespace and none that another Network
\* declares
C20_CleanupStaysInNetwork ==
    \A d \in lastNet.deleted :
        /\ d.key[1] = Namespace(lastNet.net)
        /\ \A other \in NetworkNames \ {lastNet.net} :
              ~(d.key[1] = Namespace(other) /\ d.key[2] \in Declared(other))

(***************************************************************************)
(* Convergence of the Node's children (SpecLive).                          *)
(***************************************************************************)
\* the children a reconcile creates for `node` when the store holds none
DesiredPVC(node) ==
    [specPVC(node, SetControllerReference(node, BlankPVC)) EXCEPT !.created = TRUE]

DesiredStatefulSet(node) ==
    [specStatefulSet(node, SetControllerReference(node, BlankStatefulSet),
                     DefaultPolkadotImage, PolkadotHomeDir, PolkadotArgs)
     EXCEPT !.created = TRUE]

\* both children exist; the statefulset is the desired one, and the claim is
\* owned by the Node and requests the storage of the defaulted spec
ChildrenSettled ==
    IF stored = NoNode THEN TRUE
    ELSE IF pvc = NoChild \/ sts = NoChild THEN FALSE
    ELSE LET node == ReconciledNode(stored, webhooks)
         IN /\ sts = DesiredStatefulSet(node)
            /\ pvc.owner = DesiredPVC(node).owner
            /\ pvc.requests = DesiredPVC(node).requests
            /\ pvc.accessModes = DesiredPVC(node).accessModes

\* both children exist and are the desired ones, field for field
ChildrenDesired ==
    IF stored = NoNode THEN TRUE
    ELSE IF pvc = NoChild \/ sts = NoChild THEN FALSE
    ELSE LET node == ReconciledNode(stored, webhooks)
         IN /\ sts = DesiredStatefulSet(node)
            /\ pvc = DesiredPVC(node)

\* C21 (as stated): if the Node stops changing, then, reconciles being run
\* and their store calls succeeding in the end, the claim and the
\* statefulset eventually equal, field for field, the children computed from
\* the defaulted spec, and stay so.
C21_ConvergesToDesired == ([]<><<TRUE>>_stored) \/ <>[]ChildrenDesired

\* C21 (amended): if the Node stops changing, then eventually, and from then
\* on, the statefulset equals the one computed from the defaulted spec and
\* the claim exists, is owned by the Node and requests the storage of the
\* defaulted spec; the storage class and the labels of a claim that existed
\* before the Node's last change are those it was created with.
C21_Converges == ([]<><<TRUE>>_stored) \/ <>[]ChildrenSettled

\* a Node whose claim was made for an earlier storage class has been
\* reconciled: its children are settled, the claim keeps its class
C21_Witness ==
    /\ stored # NoNode
    /\ pvc # NoChild
    /\ lastRec.result = "ok"
    /\ ChildrenSettled
    /\ ~ChildrenDesired
    /\ pvc.labels # ReconciledNode(stored, webhooks).labels

(***************************************************************************)
(* Claims about the NEAR client's arguments (under SpecNear).              *)
(***************************************************************************)
\* how many times the flag occurs among the arguments returned
ArgCount(flag) == Cardinality({i \in DOMAIN nArgs : nArgs[i] = flag})

\* the flag occurs among the arguments, followed by this value
ArgValue(flag, value) ==
    \E i \in 1..(Len(nArgs) - 1) : nArgs[i] = flag /\ nArgs[i + 1] = value

\* the home flag and its value come before the "run" subcommand
HomeBeforeRun ==
    \E i, j \in DOMAIN nArgs :
        /\ nArgs[i] = NearArgHome
        /\ i + 1 < j
        /\ nArgs[i + 1] = NearHomeDir \o "/kotal-data"
        /\ nArgs[j] = "run"

\* C22: for every NEAR node spec, Args puts the home flag before "run";
\* passes the RPC and Prometheus addresses iff rpc is enabled and the
\* disable-RPC flag iff it is not; the telemetry flag iff telemetryURL is
\* non-empty; the archive flag iff archive is true; the bootnodes flag iff
\* the list is non-empty, its value the list joined by commas, in order.
C22_NearArgs ==
    nArgs # <<>> =>
        /\ HomeBeforeRun
        /\ ArgCount(NearArgHome) = 1 /\ ArgCount("run") = 1
        /\ ArgCount(NearArgRPCAddress) = (IF nSpec.rpc THEN 1 ELSE 0)
        /\ ArgCount(NearArgPrometheusAddress) = (IF nSpec.rpc THEN 1 ELSE 0)
        /\ ArgCount(NearArgDisableRPC) = (IF nSpec.rpc THEN 0 ELSE 1)
        /\ nSpec.rpc =>
             /\ ArgValue(NearArgRPCAddress, "127.0.0.1:3030")
             /\ ArgValue(NearArgPrometheusAddress, "0.0.0.0:9615")
        /\ ArgCount(NearArgTelemetryURL) = (IF nSpec.telemetryURL # "" THEN 1 ELSE 0)
        /\ nSpec.telemetryURL # "" => ArgValue(NearArgTelemetryURL, nSpec.telemetryURL)
        /\ ArgCount(NearArgArchive) = (IF nSpec.archive THEN 1 ELSE 0)
        /\ ArgCount(NearArgBootnodes) = (IF nSpec.bootnodes # <<>> THEN 1 ELSE 0)
        /\ Len(nSpec.bootnodes) = 1 =>
             ArgValue(NearArgBootnodes, nSpec.bootnodes[1])
        /\ Len(nSpec.bootnodes) = 2 =>
             ArgValue(NearArgBootnodes,
                      nSpec.bootnodes[1] \o "," \o nSpec.bootnodes[2])
        /\ Len(nSpec.bootnodes) > 2 =>
             \E i \in 1..(Len(nArgs) - 1) :
                 /\ nArgs[i] = NearArgBootnodes
                 /\ nArgs[i + 1] =
                      nSpec.bootnodes[1] \o "," \o
                      Join(SubSeq(nSpec.bootnodes, 2, Len(nSpec.bootnodes)), ",")

\* Args was called for a node with RPC disabled, a telemetry URL, archive
\* set and two different bootnodes
C22_Witness ==
    /\ nArgs # <<>>
    /\ ~nSpec.rpc
    /\ nSpec.telemetryURL # ""
    /\ nSpec.archive
    /\ Len(nSpec.bootnodes) = 2
    /\ nSpec.bootnodes[1] # nSpec.bootnodes[2]
    /\ ArgCount(NearArgDisableRPC) = 1

\* Args was called for a node with RPC enabled, no telemetry URL, archive
\* unset and no bootnodes
C22_WitnessRPC ==
    /\ nArgs # <<>>
    /\ nSpec.rpc
    /\ nSpec.telemetryURL = ""
    /\ ~nSpec.archive
    /\ nSpec.bootnodes = <<>>
    /\ ArgCount(NearArgRPCAddress) = 1

(***************************************************************************)
(* Claims about the label merge (under SpecLabels).                        *)
(***************************************************************************)
\* the five identifying labels hold the controller's values
IdentifyingLabelsSet(labels) ==
    /\ FixedLabelKeys \subseteq DOMAIN labels
    /\ labels["app.kubernetes.io/name"] = "polkadot"
    /\ labels["app.kubernetes.io/instance"] = NodeName
    /\ labels["app.kubernetes.io/component"] = "polkadot-node"
    /\ labels["app.kubernetes.io/managed-by"] = "kotal"
    /\ labels["app.kubernetes.io/created-by"] = "polkadot-node-controller"

\* every label of `before` under another key is in `after`, and no other
OtherLabelsKept(before, after) ==
    /\ DOMAIN after = DOMAIN before \cup FixedLabelKeys
    /\ \A k \in DOMAIN before \ FixedLabelKeys : after[k] = before[k]

\* C23: after updateLabels the five identifying keys hold their fixed
\* values whatever they held before, every other label of the Node is
\* unchanged (as is the rest of the Node), and a second call changes
\* nothing: the Node after two calls is the Node after one.
C23_LabelMerge ==
    lCount >= 1 =>
        /\ IdentifyingLabelsSet(lOut.labels)
        /\ OtherLabelsKept(lIn.labels, lOut.labels)
        /\ lOut.spec = lIn.spec /\ lOut.uid = lIn.uid
        /\ lOut = updateLabels(lIn)
        /\ updateLabels(lOut) = lOut

\* updateLabels was called twice on a Node fetched with an identifying key
\* set to another value and with a label of the user's own
C23_Witness ==
    /\ lCount = 2
    /\ "app.kubernetes.io/name" \in DOMAIN lIn.labels
    /\ "tier" \in DOMAIN lIn.labels
    /\ lIn.labels["app.kubernetes.io/name"] = "gold"
    /\ lOut.labels["app.kubernetes.io/name"] = "polkadot"
    /\ lOut.labels["tier"] = lIn.labels["tier"]

=============================================================================
